---- MODULE Spec2Model ----
(***************************************************************************)
(* oxr: open a URL in an app-like browser window.                          *)
(*                                                                         *)
(* One run of the script (start -> launchApp -> detectBrowsers) on a host  *)
(* described by its platform tag, the browsers installed on it and the     *)
(* command-line arguments.  The repository holds the TypeScript source     *)
(* (src/unnamed/part_000) and a bundled build (src/index.js) whose Linux   *)
(* tables differ; `build` says which of the two is running.                *)
(*                                                                         *)
(* A JavaScript string is a sequence of one-character strings, so that     *)
(* startsWith, includes, template literals and join are computed on the    *)
(* characters.  A value that may be undefined is a record with a           *)
(* `defined` field.                                                        *)
(***************************************************************************)
EXTENDS Integers, Sequences, FiniteSets, TLC

VARIABLES build, os, installed, argv, pc, url, detectedBrowsers, browserToUse,
          tryDefaultBrowser, spawned, stdout, stderr, exitCode

vars == <<build, os, installed, argv, pc, url, detectedBrowsers, browserToUse,
          tryDefaultBrowser, spawned, stdout, stderr, exitCode>>

(***************************************************************************)
(* Bounds                                                                  *)
(***************************************************************************)
\* process.argv.slice(2) holds at most MaxArgs arguments
MaxArgs == 2

\* longest list of detected browsers handed to the selection step alone
MaxDetected == 2

(***************************************************************************)
(* JavaScript values                                                       *)
(***************************************************************************)
Undefined == [defined |-> FALSE]

Some(v) == [defined |-> TRUE, value |-> v]

\* String.prototype.startsWith
startsWith(s, p) == Len(p) <= Len(s) /\ SubSeq(s, 1, Len(p)) = p

\* String.prototype.includes (case-sensitive substring search)
includes(s, sub) == \E i \in 0..(Len(s) - Len(sub)) : SubSeq(s, i + 1, i + Len(sub)) = sub

Digit(d) == <<"0", "1", "2", "3", "4", "5", "6", "7", "8", "9">>[d + 1]

RECURSIVE NumberToString(_)
\* ${n} in a template literal, n a non-negative integer
NumberToString(n) == IF n < 10 THEN <<Digit(n)>> ELSE NumberToString(n \div 10) \o <<Digit(n % 10)>>

RECURSIVE join(_, _)
\* Array.prototype.join
join(strs, sep) ==
    IF Len(strs) = 0 THEN <<>>
    ELSE IF Len(strs) = 1 THEN strs[1]
    ELSE strs[1] \o sep \o join(Tail(strs), sep)

\* Array.prototype.map(b => b.name)
names(browsers) == [i \in 1..Len(browsers) |-> browsers[i].name]

(***************************************************************************)
(* Platform tags (os.platform())                                           *)
(***************************************************************************)
win32 == <<"w","i","n","3","2">>

darwin == <<"d","a","r","w","i","n">>

linux == <<"l","i","n","u","x">>

SupportedOS == {win32, darwin, linux}

\* tags of platforms the script has no tables for
OtherOS == {<<"f","r","e","e","b","s","d">>, <<"s","u","n","o","s">>}

Builds == {"index.js", "part_000"}

(***************************************************************************)
(* Browser catalog                                                         *)
(***************************************************************************)
Chrome == <<"C","h","r","o","m","e">>

Firefox == <<"F","i","r","e","f","o","x">>

Edge == <<"E","d","g","e">>

Brave == <<"B","r","a","v","e">>

Vivaldi == <<"V","i","v","a","l","d","i">>

Opera == <<"O","p","e","r","a">>

Safari == <<"S","a","f","a","r","i">>

Chromium == <<"C","h","r","o","m","i","u","m">>

IBrowser(n, c) == [name |-> n, cmd |-> c]

BROWSERS_windows ==
    << IBrowser(Chrome, <<"C",":","\\","P","r","o","g","r","a","m"," ","F","i","l","e","s","\\","G","o","o","g","l","e","\\","C","h","r","o","m","e","\\","A","p","p","l","i","c","a","t","i","o","n","\\","c","h","r","o","m","e",".","e","x","e">>),
       IBrowser(Firefox, <<"C",":","\\","P","r","o","g","r","a","m"," ","F","i","l","e","s","\\","M","o","z","i","l","l","a"," ","F","i","r","e","f","o","x","\\","f","i","r","e","f","o","x",".","e","x","e">>),
       IBrowser(Edge, <<"C",":","\\","P","r","o","g","r","a","m"," ","F","i","l","e","s"," ","(","x","8","6",")","\\","M","i","c","r","o","s","o","f","t","\\","E","d","g","e","\\","A","p","p","l","i","c","a","t","i","o","n","\\","m","s","e","d","g","e",".","e","x","e">>),
       IBrowser(Brave, <<"C",":","\\","P","r","o","g","r","a","m"," ","F","i","l","e","s","\\","B","r","a","v","e","S","o","f","t","w","a","r","e","\\","B","r","a","v","e","-","B","r","o","w","s","e","r","\\","A","p","p","l","i","c","a","t","i","o","n","\\","b","r","a","v","e",".","e","x","e">>),
       IBrowser(Vivaldi, <<"C",":","\\","P","r","o","g","r","a","m"," ","F","i","l","e","s","\\","V","i","v","a","l","d","i","\\","A","p","p","l","i","c","a","t","i","o","n","\\","v","i","v","a","l","d","i",".","e","x","e">>),
       IBrowser(Opera, <<"C",":","\\","P","r","o","g","r","a","m"," ","F","i","l","e","s","\\","O","p","e","r","a","\\","l","a","u","n","c","h","e","r",".","e","x","e">>) >>

BROWSERS_darwin ==
    << IBrowser(Chrome, <<"/","A","p","p","l","i","c","a","t","i","o","n","s","/","G","o","o","g","l","e"," ","C","h","r","o","m","e",".","a","p","p">>),
       IBrowser(Safari, <<"/","A","p","p","l","i","c","a","t","i","o","n","s","/","S","a","f","a","r","i",".","a","p","p">>),
       IBrowser(Firefox, <<"/","A","p","p","l","i","c","a","t","i","o","n","s","/","F","i","r","e","f","o","x",".","a","p","p">>),
       IBrowser(Brave, <<"/","A","p","p","l","i","c","a","t","i","o","n","s","/","B","r","a","v","e"," ","B","r","o","w","s","e","r",".","a","p","p">>),
       IBrowser(Edge, <<"/","A","p","p","l","i","c","a","t","i","o","n","s","/","M","i","c","r","o","s","o","f","t"," ","E","d","g","e",".","a","p","p">>),
       IBrowser(Vivaldi, <<"/","A","p","p","l","i","c","a","t","i","o","n","s","/","V","i","v","a","l","d","i",".","a","p","p">>),
       IBrowser(Opera, <<"/","A","p","p","l","i","c","a","t","i","o","n","s","/","O","p","e","r","a",".","a","p","p">>) >>

\* BROWSERS.linux of the bundled build
BROWSERS_linux_js ==
    << IBrowser(Chromium, <<"c","h","r","o","m","i","u","m">>),
       IBrowser(Firefox, <<"f","i","r","e","f","o","x">>),
       IBrowser(Chrome, <<"g","o","o","g","l","e","-","c","h","r","o","m","e">>),
       IBrowser(Brave, <<"b","r","a","v","e","-","b","r","o","w","s","e","r">>),
       IBrowser(Vivaldi, <<"v","i","v","a","l","d","i">>),
       IBrowser(Opera, <<"o","p","e","r","a">>) >>

\* BROWSERS.linux of the TypeScript source
BROWSERS_linux_ts ==
    << IBrowser(Chromium, <<"c","h","r","o","m","i","u","m">>),
       IBrowser(Chrome, <<"g","o","o","g","l","e","-","c","h","r","o","m","e">>),
       IBrowser(Firefox, <<"f","i","r","e","f","o","x">>),
       IBrowser(Brave, <<"b","r","a","v","e","-","b","r","o","w","s","e","r">>),
       IBrowser(Vivaldi, <<"v","i","v","a","l","d","i">>),
       IBrowser(Opera, <<"o","p","e","r","a">>) >>

BROWSERS(b) ==
    [ windows |-> BROWSERS_windows,
      darwin  |-> BROWSERS_darwin,
      linux   |-> IF b = "index.js" THEN BROWSERS_linux_js ELSE BROWSERS_linux_ts ]

\* the catalog detectBrowsers walks on platform o (empty when it has none)
Catalog(b, o) ==
    IF o = win32 THEN BROWSERS(b).windows
    ELSE IF o = darwin THEN BROWSERS(b).darwin
    ELSE IF o = linux THEN BROWSERS(b).linux
    ELSE <<>>

Range(s) == {s[i] : i \in 1..Len(s)}

\* the paths / command names the script probes on platform o
Locators(b, o) == {br.cmd : br \in Range(Catalog(b, o))}

(***************************************************************************)
(* detectBrowsers                                                          *)
(***************************************************************************)
\* existsSync(cmd) on Windows/macOS, which(cmd) on Linux: fs is the set of
\* locators present on the host; which() turns every failure into null.
which(fs, command) == command \in fs

existsSync(fs, path) == path \in fs

\* foundBrowsers when detectBrowsers returns it: the installed part of the
\* catalog of platform o, in catalog order
foundBrowsers(b, o, fs) ==
    IF o = win32 THEN SelectSeq(BROWSERS(b).windows, LAMBDA br : existsSync(fs, br.cmd))
    ELSE IF o = darwin THEN SelectSeq(BROWSERS(b).darwin, LAMBDA br : existsSync(fs, br.cmd))
    ELSE SelectSeq(BROWSERS(b).linux, LAMBDA br : which(fs, br.cmd))

(***************************************************************************)
(* launchApp                                                               *)
(***************************************************************************)
preferredBrowsers_linux_js == <<Chromium, Firefox, Brave, Chrome, Vivaldi, Opera>>

preferredBrowsers_linux_ts == <<Chromium, Chrome, Firefox, Brave, Vivaldi, Opera>>

preferredBrowsers(b) ==
    [ win32  |-> <<Chrome, Firefox, Edge, Brave, Vivaldi, Opera>>,
      darwin |-> <<Chrome, Safari, Firefox, Edge, Brave, Vivaldi, Opera>>,
      linux  |-> IF b = "index.js" THEN preferredBrowsers_linux_js ELSE preferredBrowsers_linux_ts ]

\* preferredBrowsers[osName] || []
browsersForOS(b, o) ==
    IF o = win32 THEN preferredBrowsers(b).win32
    ELSE IF o = darwin THEN preferredBrowsers(b).darwin
    ELSE IF o = linux THEN preferredBrowsers(b).linux
    ELSE <<>>

width == 960

height == 800

\* variant: only a full "http://" scheme counts as already schemed
normalizeUrl_schemeOnly(u) ==
    IF startsWith(u, <<"h","t","t","p",":","/","/">>) THEN u
    ELSE IF startsWith(u, <<"l","o","c","a","l","h","o","s","t">>) THEN <<"h","t","t","p",":","/","/">> \o u
    ELSE <<"h","t","t","p","s",":","/","/">> \o u

\* url.startsWith("http") ? url : url.startsWith("localhost") ? `http://${url}` : `https://${url}`
normalizeUrl(u) ==
    IF startsWith(u, <<"h","t","t","p">>) THEN u
    ELSE IF startsWith(u, <<"l","o","c","a","l","h","o","s","t">>) THEN <<"h","t","t","p",":","/","/">> \o u
    ELSE <<"h","t","t","p","s",":","/","/">> \o u

\* the least index of a non-empty set of indices: where find() stops
firstHit(hits) == CHOOSE k \in hits : \A j \in hits : k <= j

\* browsersForOS.find((name) => detectedBrowsers.some((b) => b.name === name))
findPreferred(prefs, detected) ==
    LET hits == {k \in 1..Len(prefs) : \E i \in 1..Len(detected) : detected[i].name = prefs[k]}
    IN  IF hits = {} THEN Undefined ELSE Some(prefs[firstHit(hits)])

\* detectedBrowsers.find((b) => b.name === preferredBrowser)
findByName(detected, n) ==
    LET hits == {i \in 1..Len(detected) : detected[i].name = n}
    IN  IF hits = {} THEN Undefined ELSE Some(detected[firstHit(hits)])

\* variant: the last element instead of the first
first_last(s) == IF Len(s) = 0 THEN Undefined ELSE Some(s[Len(s)])

\* s[0] of an array: undefined when the array is empty
first(s) == IF Len(s) = 0 THEN Undefined ELSE Some(s[1])

\* variant: the preference list is ignored, detection order decides
selectBrowser_firstDetected(b, o, detected) == first(detected)

\* the browser launchApp settles on, given the (defined) list of detected
\* browsers: the first preferred name that was detected, else the first
\* detected browser, else undefined
selectBrowser(b, o, detected) ==
    LET preferredBrowser == findPreferred(browsersForOS(b, o), detected)
    IN  IF preferredBrowser.defined
        THEN findByName(detected, preferredBrowser.value)
        ELSE first(detected)

\* variant: the Firefox command form is never used
cmdIncludesFirefox_never(browser) == FALSE

\* variant: the locator is searched for the lowercase command name
cmdIncludesFirefox_lowercase(browser) == includes(browser.cmd, <<"f","i","r","e","f","o","x">>)

\* browserToUse.cmd.includes("Firefox")
cmdIncludesFirefox(browser) == includes(browser.cmd, <<"F","i","r","e","f","o","x">>)

\* the command launchApp hands to exec for the selected browser
browserCommand(o, browser, u) ==
    LET sizeInfo == <<"-","-","w","i","n","d","o","w","-","s","i","z","e","=">> \o NumberToString(width) \o <<",">> \o NumberToString(height)
        ffSizeInfo == <<"-","-","w","i","d","t","h","=">> \o NumberToString(width) \o <<" ","-","-","h","e","i","g","h","t","=">> \o NumberToString(height)
    IN  IF o # darwin
        THEN IF cmdIncludesFirefox(browser)
             THEN <<"\"">> \o browser.cmd \o <<"\"", " ", "\"">> \o u \o <<"\"", " ">> \o ffSizeInfo
             ELSE <<"\"">> \o browser.cmd \o <<"\"">> \o <<" ","-","-","a","p","p","=","\"">> \o u \o <<"\"", " ">> \o sizeInfo
                  \o <<" ","-","-","n","e","w","-","w","i","n","d","o","w"," ","-","-","u","s","e","r","-","d","a","t","a","-","d","i","r","=","\"","/","t","m","p","/","t","e","m","p","-","p","r","o","f","i","l","e","\"">>
        ELSE IF cmdIncludesFirefox(browser)
             THEN <<"o","p","e","n"," ","-","n","a"," ","\"">> \o browser.cmd \o <<"\"", " ", "\"">> \o u \o <<"\"", " ">> \o ffSizeInfo
             ELSE <<"o","p","e","n"," ","-","n","a"," ","\"">> \o browser.cmd \o <<"\"">> \o <<" ","-","-","a","r","g","s"," ","-","-","a","p","p","=","\"">> \o u
                  \o <<"\""," ","-","-","n","e","w","-","w","i","n","d","o","w"," ","-","-","u","s","e","r","-","d","a","t","a","-","d","i","r","=","\"","/","t","m","p","/","t","e","m","p","-","p","r","o","f","i","l","e","\"">>

\* variant: the macOS open command on every supported platform
defaultCommand_openEverywhere(o, u) ==
    IF o = win32 \/ o = darwin \/ o = linux THEN Some(<<"o","p","e","n"," ","\"">> \o u \o <<"\"">>)
    ELSE Undefined

\* the command of the default-browser fallback, undefined where the
\* fallback only logs
defaultCommand(o, u) ==
    IF o = win32 THEN Some(<<"s","t","a","r","t"," ","\"","\""," ","\"">> \o u \o <<"\"">>)
    ELSE IF o = darwin THEN Some(<<"o","p","e","n"," ","\"">> \o u \o <<"\"">>)
    ELSE IF o = linux THEN Some(<<"x","d","g","-","o","p","e","n"," ","\"">> \o u \o <<"\"">>)
    ELSE Undefined

\* variant: the default browser is tried whether or not a browser was selected
tryDefaultAfterSelect_always(browser) == TRUE

\* launchApp falls back to the default browser when no browser was selected
tryDefaultAfterSelect(browser) == ~browser.defined

(***************************************************************************)
(* Hosts and command lines                                                 *)
(***************************************************************************)
URLS ==
    { <<"e","x","a","m","p","l","e",".","c","o","m">>, <<"l","o","c","a","l","h","o","s","t",":","3","0","0","0">>, <<"h","t","t","p",":","/","/","f","o","o">>, <<"h","t","t","p","s",":","/","/","f","o","o">>,
      <<"h","t","t","p","f","o","o",".","c","o","m">>, <<"l","o","c","a","l","h","o","s","t">>, <<"l","o","c","a","l">>, <<"h","t","t">>, <<"H","T","T","P",":","/","/","f","o","o">>,
      <<"-","-","a","p","p","=","x">>, <<>> }

\* arguments after the first are never read
ExtraArgs == {<<"-","-","v","e","r","b","o","s","e">>}

RECURSIVE Tuples(_, _)
\* the sequences over S of length at most n
Tuples(S, n) ==
    IF n = 0 THEN {<<>>}
    ELSE LET shorter == Tuples(S, n - 1)
         IN  shorter \cup {Append(t, x) : t \in {t \in shorter : Len(t) = n - 1}, x \in S}

Argvs == {<<>>} \cup {<<u>> \o rest : u \in URLS, rest \in Tuples(ExtraArgs, MaxArgs - 1)}

\* process still running
NoExit == -1

TypeOK ==
    /\ build \in Builds
    /\ os \in SupportedOS \cup OtherOS
    /\ installed \subseteq Locators(build, os)
    /\ argv \in Argvs
    /\ pc \in {"start", "detect", "select", "invoke", "fallback", "done", "exited"}
    /\ tryDefaultBrowser \in BOOLEAN
    /\ exitCode \in {NoExit, 0, 1}
    /\ detectedBrowsers.defined \in BOOLEAN
    /\ browserToUse.defined \in BOOLEAN

Init ==
    /\ build \in Builds
    /\ os \in SupportedOS \cup OtherOS
    /\ installed \in SUBSET Locators(build, os)
    /\ argv \in Argvs
    /\ pc = "start"
    /\ url = <<>>
    /\ detectedBrowsers = Undefined
    /\ browserToUse = Undefined
    /\ tryDefaultBrowser = FALSE
    /\ spawned = <<>>
    /\ stdout = <<>>
    /\ stderr = <<>>
    /\ exitCode = NoExit

(***************************************************************************)
(* Steps of a run                                                          *)
(***************************************************************************)
\* variant: the usage error is printed but the process does not exit
start_noExit ==
    /\ pc = "start"
    /\ IF Len(argv) = 0
       THEN /\ stderr' = Append(stderr, <<"N","o"," ","U","R","L"," ","p","r","o","v","i","d","e","d","!"," ","U","s","a","g","e",":"," ","n","p","x"," ","o","x","r"," ","<","u","r","l",">">>)
            /\ url' = <<>>
       ELSE /\ url' = argv[1]
            /\ UNCHANGED stderr
    /\ pc' = "detect"
    /\ UNCHANGED <<build, os, installed, argv, detectedBrowsers, browserToUse,
                   tryDefaultBrowser, spawned, stdout, exitCode>>

\* start(): without arguments print the usage error and exit(1), else call
\* launchApp(args[0])
start ==
    /\ pc = "start"
    /\ IF Len(argv) = 0
       THEN /\ stderr' = Append(stderr, <<"N","o"," ","U","R","L"," ","p","r","o","v","i","d","e","d","!"," ","U","s","a","g","e",":"," ","n","p","x"," ","o","x","r"," ","<","u","r","l",">">>)
            /\ exitCode' = 1
            /\ pc' = "exited"
            /\ UNCHANGED url
       ELSE /\ url' = argv[1]
            /\ pc' = "detect"
            /\ UNCHANGED <<stderr, exitCode>>
    /\ UNCHANGED <<build, os, installed, argv, detectedBrowsers, browserToUse,
                   tryDefaultBrowser, spawned, stdout>>

\* variant: every platform that is not Windows or macOS is treated as Linux
detectBrowsers_elseLinux ==
    /\ pc = "detect"
    /\ detectedBrowsers' = Some(foundBrowsers(build, os, installed))
    /\ pc' = "select"
    /\ UNCHANGED <<build, os, installed, argv, url, browserToUse, tryDefaultBrowser,
                   spawned, stdout, stderr, exitCode>>

\* let detectedBrowsers = detectBrowsers()
detectBrowsers ==
    /\ pc = "detect"
    /\ IF os = win32 \/ os = darwin \/ os = linux
       THEN /\ detectedBrowsers' = Some(foundBrowsers(build, os, installed))
            /\ UNCHANGED stdout
       ELSE /\ stdout' = Append(stdout, <<"U","n","s","u","p","p","o","r","t","e","d"," ","O","S">>)
            /\ detectedBrowsers' = Undefined
    /\ pc' = "select"
    /\ UNCHANGED <<build, os, installed, argv, url, browserToUse, tryDefaultBrowser,
                   spawned, stderr, exitCode>>

\* launchApp from its two log lines to the choice of browserToUse
launchApp_select ==
    /\ pc = "select"
    /\ stdout' = stdout \o
          << <<"D","e","t","e","c","t","e","d"," ","O","S",":"," ">> \o os,
             <<"D","e","t","e","c","t","e","d"," ","b","r","o","w","s","e","r","s",":"," ">> \o
                (IF detectedBrowsers.defined
                 THEN join(names(detectedBrowsers.value), <<","," ">>)
                 ELSE <<"N","o","n","e">>) >>
    /\ url' = normalizeUrl(url)
    /\ IF detectedBrowsers.defined
       THEN /\ browserToUse' = selectBrowser(build, os, detectedBrowsers.value)
            /\ tryDefaultBrowser' = tryDefaultAfterSelect(browserToUse')
            /\ pc' = IF browserToUse'.defined THEN "invoke" ELSE "fallback"
       ELSE /\ pc' = "fallback"
            /\ UNCHANGED <<browserToUse, tryDefaultBrowser>>
    /\ UNCHANGED <<build, os, installed, argv, detectedBrowsers, spawned, stderr, exitCode>>

\* launchApp: exec of the selected browser
launchApp_exec ==
    /\ pc = "invoke"
    /\ spawned' = Append(spawned, [tier |-> "browser",
                                   command |-> browserCommand(os, browserToUse.value, url)])
    /\ pc' = "fallback"
    /\ UNCHANGED <<build, os, installed, argv, url, detectedBrowsers, browserToUse,
                   tryDefaultBrowser, stdout, stderr, exitCode>>

\* launchApp: if (tryDefaultBrowser) { ... }, then the script ends
launchApp_default ==
    /\ pc = "fallback"
    /\ IF tryDefaultBrowser
       THEN IF defaultCommand(os, url).defined
            THEN /\ spawned' = Append(spawned, [tier |-> "default",
                                                command |-> defaultCommand(os, url).value])
                 /\ UNCHANGED stdout
            ELSE /\ stdout' = Append(stdout, <<"U","n","s","u","p","p","o","r","t","e","d"," ","O","S"," ","f","o","r"," ","l","a","u","n","c","h","i","n","g"," ","a","p","p","!">>)
                 /\ UNCHANGED spawned
       ELSE UNCHANGED <<spawned, stdout>>
    /\ pc' = "done"
    /\ exitCode' = 0
    /\ UNCHANGED <<build, os, installed, argv, url, detectedBrowsers, browserToUse,
                   tryDefaultBrowser, stderr>>

Next ==
    \/ start
    \/ detectBrowsers
    \/ launchApp_select
    \/ launchApp_exec
    \/ launchApp_default

Spec == Init /\ [][Next]_vars

(***************************************************************************)
(* The selection step of launchApp on its own: browserToUse as a function  *)
(* of the platform and an arbitrary list of browser descriptors.           *)
(***************************************************************************)
AllBrowsers ==
    Range(BROWSERS_windows) \cup Range(BROWSERS_darwin)
        \cup Range(BROWSERS_linux_js) \cup Range(BROWSERS_linux_ts)

InitSelect ==
    /\ build \in Builds
    /\ os \in SupportedOS
    /\ installed = {}
    /\ argv = <<>>
    /\ pc = "select_only"
    /\ url = <<>>
    /\ detectedBrowsers \in {Some(d) : d \in Tuples(AllBrowsers, MaxDetected)}
    /\ browserToUse = Undefined
    /\ tryDefaultBrowser = FALSE
    /\ spawned = <<>>
    /\ stdout = <<>>
    /\ stderr = <<>>
    /\ exitCode = NoExit

select_only ==
    /\ pc = "select_only"
    /\ browserToUse' = selectBrowser(build, os, detectedBrowsers.value)
    /\ tryDefaultBrowser' = tryDefaultAfterSelect(browserToUse')
    /\ pc' = "selected"
    /\ UNCHANGED <<build, os, installed, argv, url, detectedBrowsers, spawned, stdout,
                   stderr, exitCode>>

NextSelect == select_only

SpecSelect == InitSelect /\ [][NextSelect]_vars

(***************************************************************************)
(* Properties                                                              *)
(***************************************************************************)
\* launchApp has settled browserToUse and normalized the url
Selected == pc \in {"invoke", "fallback", "done"}

\* position of name n in the preference list of the running platform (0: absent)
PrefPos(n) ==
    LET prefs == browsersForOS(build, os)
    IN  IF \E k \in 1..Len(prefs) : prefs[k] = n
        THEN CHOOSE k \in 1..Len(prefs) : prefs[k] = n
        ELSE 0

\* the commands handed to exec by the browser tier / the default tier
BrowserSpawns == {i \in 1..Len(spawned) : spawned[i].tier = "browser"}

DefaultSpawns == {i \in 1..Len(spawned) : spawned[i].tier = "default"}

\* C1: on a supported platform, whenever two detected browsers are both in
\* the platform's preference list, the one later in that list is not the one
\* selected and the selected browser is no later in the list than the earlier
\* of the two - whatever their order in the detected list.
C1_PreferencePrecedence ==
    (Selected /\ os \in SupportedOS) =>
        LET d == detectedBrowsers.value
        IN  \A i, j \in 1..Len(d) :
                (PrefPos(d[i].name) > 0 /\ PrefPos(d[j].name) > PrefPos(d[i].name)) =>
                    /\ browserToUse.defined
                    /\ browserToUse.value # d[j]
                    /\ PrefPos(browserToUse.value.name) > 0
                    /\ PrefPos(browserToUse.value.name) <= PrefPos(d[i].name)

\* a finished run where the selected browser was detected after a browser
\* that the preference list ranks below it
C1_Witness ==
    /\ pc = "done"
    /\ os \in SupportedOS
    /\ browserToUse.defined
    /\ \E i, j \in 1..Len(detectedBrowsers.value) :
          /\ i < j
          /\ detectedBrowsers.value[j] = browserToUse.value
          /\ PrefPos(detectedBrowsers.value[i].name) > PrefPos(browserToUse.value.name)
    /\ Len(spawned) = 1

\* C2: when the detected list is non-empty and none of its names is in the
\* platform's preference list, the selected browser is the first entry of the
\* detected list.
C2_FallbackFirstDetected ==
    (pc = "selected" /\ Len(detectedBrowsers.value) > 0
        /\ \A i \in 1..Len(detectedBrowsers.value) : PrefPos(detectedBrowsers.value[i].name) = 0)
    => browserToUse = Some(detectedBrowsers.value[1])

\* two different browsers, neither in the preference list: the first is taken
C2_Witness ==
    /\ pc = "selected"
    /\ Len(detectedBrowsers.value) = 2
    /\ detectedBrowsers.value[1] # detectedBrowsers.value[2]
    /\ \A i \in 1..2 : PrefPos(detectedBrowsers.value[i].name) = 0
    /\ browserToUse = Some(detectedBrowsers.value[1])

\* C3: the url launchApp uses is its argument unchanged when the argument
\* begins with the four characters h,t,t,p; else "http://" + argument when it
\* begins with "localhost"; else "https://" + argument.
C3_UrlNormalization ==
    Selected =>
        LET input == argv[1]
            begins(p) == Len(input) >= Len(p) /\ \A k \in 1..Len(p) : input[k] = p[k]
        IN  /\ begins(<<"h","t","t","p">>) => url = input
            /\ (~begins(<<"h","t","t","p">>) /\ begins(<<"l","o","c","a","l","h","o","s","t">>)) => url = <<"h","t","t","p",":","/","/">> \o input
            /\ (~begins(<<"h","t","t","p">>) /\ ~begins(<<"l","o","c","a","l","h","o","s","t">>)) => url = <<"h","t","t","p","s",":","/","/">> \o input
            /\ input = <<"e","x","a","m","p","l","e",".","c","o","m">> => url = <<"h","t","t","p","s",":","/","/","e","x","a","m","p","l","e",".","c","o","m">>
            /\ input = <<"l","o","c","a","l","h","o","s","t",":","3","0","0","0">> => url = <<"h","t","t","p",":","/","/","l","o","c","a","l","h","o","s","t",":","3","0","0","0">>
            /\ input = <<"h","t","t","p",":","/","/","f","o","o">> => url = <<"h","t","t","p",":","/","/","f","o","o">>
            /\ input = <<"h","t","t","p","s",":","/","/","f","o","o">> => url = <<"h","t","t","p","s",":","/","/","f","o","o">>
            /\ input = <<"h","t","t","p","f","o","o",".","c","o","m">> => url = <<"h","t","t","p","f","o","o",".","c","o","m">>

\* a finished run on "httpfoo.com", spawned with that very text
C3_Witness ==
    /\ pc = "done"
    /\ argv[1] = <<"h","t","t","p","f","o","o",".","c","o","m">>
    /\ url = <<"h","t","t","p","f","o","o",".","c","o","m">>
    /\ Len(spawned) = 1
    /\ includes(spawned[1].command, <<"\"","h","t","t","p","f","o","o",".","c","o","m","\"">>)

\* the text of command c around the url carries no --app= flag
NoAppFlag(c, u) ==
    \E i \in 0..(Len(c) - Len(u)) :
        /\ SubSeq(c, i + 1, i + Len(u)) = u
        /\ ~includes(SubSeq(c, 1, i), <<"-","-","a","p","p","=">>)
        /\ ~includes(SubSeq(c, i + Len(u) + 1, Len(c)), <<"-","-","a","p","p","=">>)

\* C4: on Windows the command spawned for the Firefox catalog entry contains
\* --width=960 --height=800 and no --app= flag; the command spawned for any
\* other catalog browser contains --app="<url>" and
\* --user-data-dir="/tmp/temp-profile".
C4_WindowsCommandShape ==
    (os = win32 /\ BrowserSpawns # {}) =>
        \A i \in BrowserSpawns :
            IF browserToUse.value.name = Firefox
            THEN /\ includes(spawned[i].command, <<"-","-","w","i","d","t","h","=","9","6","0"," ","-","-","h","e","i","g","h","t","=","8","0","0">>)
                 /\ NoAppFlag(spawned[i].command, url)
            ELSE /\ includes(spawned[i].command, <<"-","-","a","p","p","=","\"">> \o url \o <<"\"">>)
                 /\ includes(spawned[i].command, <<"-","-","u","s","e","r","-","d","a","t","a","-","d","i","r","=","\"","/","t","m","p","/","t","e","m","p","-","p","r","o","f","i","l","e","\"">>)

\* Firefox launched on Windows for a url that itself holds the text --app=
C4_Witness ==
    /\ os = win32
    /\ pc = "done"
    /\ browserToUse = Some(BROWSERS_windows[2])
    /\ argv[1] = <<"-","-","a","p","p","=","x">>
    /\ BrowserSpawns = {1}

\* C5: on a supported platform with an empty detected list, the run spawns
\* exactly one command, the platform's open command on the normalized url.
C5_DefaultBrowserFallback ==
    (pc = "done" /\ os \in SupportedOS /\ detectedBrowsers = Some(<<>>)) =>
        /\ Len(spawned) = 1
        /\ BrowserSpawns = {}
        /\ os = win32 => spawned[1].command = <<"s","t","a","r","t"," ","\"","\""," ","\"">> \o url \o <<"\"">>
        /\ os = darwin => spawned[1].command = <<"o","p","e","n"," ","\"">> \o url \o <<"\"">>
        /\ os = linux => spawned[1].command = <<"x","d","g","-","o","p","e","n"," ","\"">> \o url \o <<"\"">>

\* Linux host without any catalog browser, asked for example.com
C5_Witness ==
    /\ pc = "done"
    /\ os = linux
    /\ installed = {}
    /\ argv[1] = <<"e","x","a","m","p","l","e",".","c","o","m">>
    /\ spawned = <<[tier |-> "default", command |-> <<"x","d","g","-","o","p","e","n"," ","\"","h","t","t","p","s",":","/","/","e","x","a","m","p","l","e",".","c","o","m","\"">>]>>

\* C6: on a platform outside {win32, darwin, linux} a finished launchApp has
\* logged "Unsupported OS for launching app!" and spawned nothing.
C6_UnsupportedFallbackLogged ==
    (pc = "done" /\ os \notin SupportedOS) =>
        /\ \E i \in 1..Len(stdout) : stdout[i] = <<"U","n","s","u","p","p","o","r","t","e","d"," ","O","S"," ","f","o","r"," ","l","a","u","n","c","h","i","n","g"," ","a","p","p","!">>
        /\ spawned = <<>>

\* C7: on a platform outside {win32, darwin, linux} nothing is ever spawned,
\* and once detection has run the line "Unsupported OS" is on the log.
C7_UnsupportedNoSpawn ==
    os \notin SupportedOS =>
        /\ spawned = <<>>
        /\ pc \in {"select", "invoke", "fallback", "done"} =>
              \E i \in 1..Len(stdout) : stdout[i] = <<"U","n","s","u","p","p","o","r","t","e","d"," ","O","S">>

\* a finished run on an unsupported platform
C7_Witness ==
    /\ os \notin SupportedOS
    /\ pc = "done"
    /\ Len(argv) > 0
    /\ stdout[1] = <<"U","n","s","u","p","p","o","r","t","e","d"," ","O","S">>
    /\ spawned = <<>>

\* C8: a run without arguments ends at once with exit code 1 and one error
\* line containing "No URL provided": nothing is detected, logged or spawned.
C8_MissingArgument ==
    (Len(argv) = 0 /\ pc # "start") =>
        /\ pc = "exited"
        /\ exitCode = 1
        /\ Len(stderr) = 1
        /\ includes(stderr[1], <<"N","o"," ","U","R","L"," ","p","r","o","v","i","d","e","d">>)
        /\ ~detectedBrowsers.defined
        /\ stdout = <<>>
        /\ spawned = <<>>

\* the run without arguments has exited
C8_Witness ==
    /\ Len(argv) = 0
    /\ pc = "exited"
    /\ exitCode = 1

\* C9: a run issues at most one spawn: at most one from the browser tier, at
\* most one from the default tier, never one of each, and the default tier
\* spawns only when no browser was selected.
C9_AtMostOneSpawn ==
    /\ Len(spawned) <= 1
    /\ Cardinality(BrowserSpawns) <= 1
    /\ Cardinality(DefaultSpawns) <= 1
    /\ BrowserSpawns = {} \/ DefaultSpawns = {}
    /\ DefaultSpawns # {} => ~browserToUse.defined
    /\ BrowserSpawns # {} => ~tryDefaultBrowser

\* a finished run that launched a browser and did not fall back
C9_Witness ==
    /\ pc = "done"
    /\ browserToUse.defined
    /\ BrowserSpawns = {1}
    /\ DefaultSpawns = {}

\* C10: on Linux no catalog locator contains "Firefox", and every browser
\* that is spawned, Firefox included, gets the --app form of the command and
\* never the "<url>" --width=960 --height=800 form.
C10_LinuxNeverFirefoxForm ==
    (os = linux /\ BrowserSpawns # {}) =>
        /\ \A k \in 1..Len(BROWSERS(build).linux) : ~includes(BROWSERS(build).linux[k].cmd, Firefox)
        /\ \A i \in BrowserSpawns :
              /\ spawned[i].command =
                    <<"\"">> \o browserToUse.value.cmd \o <<"\"", " ">> \o <<"-","-","a","p","p","=","\"">> \o url
                       \o <<"\""," ","-","-","w","i","n","d","o","w","-","s","i","z","e","=","9","6","0",",","8","0","0"," ","-","-","n","e","w","-","w","i","n","d","o","w"," ","-","-","u","s","e","r","-","d","a","t","a","-","d","i","r","=","\"","/","t","m","p","/","t","e","m","p","-","p","r","o","f","i","l","e","\"">>
              /\ ~includes(spawned[i].command, <<"\"">> \o url \o <<"\""," ","-","-","w","i","d","t","h","=","9","6","0"," ","-","-","h","e","i","g","h","t","=","8","0","0">>)

\* the browser named Firefox launched on Linux
C10_Witness ==
    /\ os = linux
    /\ pc = "done"
    /\ browserToUse.defined
    /\ browserToUse.value.name = Firefox
    /\ BrowserSpawns = {1}

====
